---- MODULE Spec2Model ----
(***************************************************************************)
(* ZipToRepo: the deployment pipeline deployZipToGitHub (lib/github) and   *)
(* the wizard that drives it (App.tsx).                                     *)
(*                                                                         *)
(* One action of the model is one turn of the JavaScript event loop: the   *)
(* arrival of a response (or a click), followed by the code that runs      *)
(* synchronously up to the next await.  A host call is therefore issued at *)
(* the end of the action whose continuation reaches it.                    *)
(***************************************************************************)
EXTENDS Integers, Sequences, FiniteSets, TLC

\* ---------------------------------------------------------------- bounds
\* largest number of files of an analysis (two batches need more than 5)
MaxFiles == 6
\* largest number of archives dropped on the wizard
MaxDrops == 2
\* largest number of deployZipToGitHub invocations started by the wizard
MaxAttempts == 2
MaxEntries == 3

\* ------------------------------------------------------ program constants
BATCH_SIZE == 5

\* --------------------------------------------------------------- inputs
Logins == {"octocat"}
RepoNames == {"site"}
Contents == {"x", "y"}
\* sha of the commit auto_init creates, and of the head of an older repository
BaseCommit == "c0"
PriorCommit == "p0"

\* errors a host call (or a zip read) can be rejected with: status, message
HostErrors ==
    { [status |-> 500, message |-> <<"Server Error">>],
      [status |-> 403, message |-> <<>>] }
ConflictError == [status |-> 422, message |-> <<"Validation Failed">>]
ReadError == [status |-> 0, message |-> <<"Corrupted zip">>]

Ops == {"authenticate", "createRepo", "getRef", "createTree", "createCommit", "updateRef"}

Min(a, b) == IF a < b THEN a ELSE b

VARIABLES
    \* ---- one invocation of deployZipToGitHub
    pc,              \* the await the invocation is suspended at, "idle" or "done"
    repoName,        \* parameter repoName
    analysis,        \* parameter analysis
    owner,           \* let owner
    filesToUpload,   \* const filesToUpload
    latestCommitSha, \* const latestCommitSha
    treeItems,       \* const treeItems
    i,               \* loop variable of the batch loop
    events,          \* the statuses passed to onStatus, in order
    outcome,         \* "none", "returned" or "thrown"
    result,          \* the returned URL or the thrown error
    \* ---- the calls of the invocation (history)
    call,            \* Ops -> "none" | "inflight" | "ok" | "failed"
    blob,            \* file index -> "none" | "inflight" | "ok" | "failed"
    issued,          \* Ops -> number of times the call was issued
    blobIssued,      \* file index -> number of createBlob calls issued for it
    prepIssued,      \* number of entry.async reads issued
    req,             \* Ops -> the arguments of the call as last issued
    resp,            \* Ops -> what the host answered the call with, when it succeeded
    failedStage,     \* the stage whose failure reached the catch block
    hostError,       \* the rejection that reached the catch block, as the callee gave it
    outcomes,        \* number of outcomes (return or throw) the invocation produced
    handed,          \* ids of the analyses passed to deployZipToGitHub, in order
    \* ---- the host
    hostRepos,       \* names of the repositories of the authenticated user
    hostRef,         \* heads/main of the repository repoName
    createdBy,       \* history: the invocation (by number) that created each repository, 0 if none did
    \* ---- the wizard (App)
    step, token, appRepoName, file, uiAnalysis, isDeploying, error, deployedUrl,
    validationError, \* the useState cells of App (appRepoName is its repoName)
    pending,         \* the calls of onDrop suspended at `await analyzeZip`
    drops,           \* number of times a file was dropped so far
    \* ---- one call of analyzeZip
    zipFile,         \* parameter file, as the archive it holds
    zipResult,       \* the ZipAnalysis returned
    zipCandidate,    \* potentialPrefix of the call, as <<>> or <<potentialPrefix>>
    zipPrefix        \* commonPrefix of the call

invVars == <<pc, repoName, analysis, owner, filesToUpload, latestCommitSha, treeItems,
             i, events, outcome, result>>
histVars == <<call, blob, issued, blobIssued, prepIssued, req, resp, failedStage, hostError,
             outcomes, handed>>
hostVars == <<hostRepos, hostRef, createdBy>>
appVars == <<step, token, appRepoName, file, uiAnalysis, isDeploying, error, deployedUrl,
             validationError, pending, drops>>
zipVars == <<zipFile, zipResult, zipCandidate, zipPrefix>>
vars == <<invVars, histVars, hostVars, appVars, zipVars>>

\* ------------------------------------------------------------- values
NoDetails == <<>>
Status(stepText, details, type) == [step |-> stepText, details |-> details, type |-> type]
Info(stepText) == Status(stepText, NoDetails, "info")
Success(stepText) == Status(stepText, NoDetails, "success")

\* RepoUrl with the repository name and the owner in each other's place
RepoUrl_Swapped(o, name) == <<"https://github.com/", name, "/", o>>

\* `https://github.com/${owner}/${repoName}`
RepoUrl(o, name) == <<"https://github.com/", o, "/", name>>

\* error.message || "Unknown error occurred"
MessageOf(err) == IF err.message # <<>> THEN err.message ELSE <<"Unknown error occurred">>

\* new Error(`Repository "${repoName}" already exists.`)
AlreadyExistsError(name) == [status |-> 0, message |-> <<"Repository", name, "already exists.">>]

\* Buffer.from(content).toString("base64")
Base64(content) == <<"base64", content>>
\* the sha the host answers a createBlob request with (content-addressed)
BlobSha(request) == <<"blob", request.content[2]>>
\* the sha the host answers createTree / createCommit with
TreeSha(request) == "t1"
CommitSha(request) == "c1"

NoAnalysis == [id |-> 0, fileCount |-> 0, totalSize |-> 0, projectType |-> "Unknown",
               files |-> <<>>]

\* An analysis of n files with pairwise distinct paths.
PathNames == <<"a", "b", "c", "d", "e", "f", "g", "h", "j", "k">>
AnalysisOf(id, n, content) ==
    [id |-> id, fileCount |-> n, totalSize |-> n, projectType |-> "Unknown",
     files |-> [k \in 1..n |-> [path |-> <<PathNames[k]>>, size |-> 1,
                                entry |-> content[k]]]]


\* ------------------------------------------------------------ analyzeZip
\* A path is the sequence of its characters (UTF-16 code units).
IndexHtml == <<"i", "n", "d", "e", "x", ".", "h", "t", "m", "l">>
PackageJson == <<"p", "a", "c", "k", "a", "g", "e", ".", "j", "s", "o", "n">>
MacOsx == <<"_", "_", "M", "A", "C", "O", "S", "X">>
DsStore == <<".", "D", "S", "_", "S", "t", "o", "r", "e">>
DotZip == <<".", "z", "i", "p">>
Slash == "/"

\* the code unit of each character the archives of the model use
CodeUnits ==
    { <<".", 46>>,
      <<"/", 47>>,
      <<"A", 65>>,
      <<"C", 67>>,
      <<"D", 68>>,
      <<"M", 77>>,
      <<"O", 79>>,
      <<"S", 83>>,
      <<"X", 88>>,
      <<"_", 95>>,
      <<"a", 97>>,
      <<"b", 98>>,
      <<"c", 99>>,
      <<"d", 100>>,
      <<"e", 101>>,
      <<"g", 103>>,
      <<"h", 104>>,
      <<"i", 105>>,
      <<"j", 106>>,
      <<"k", 107>>,
      <<"l", 108>>,
      <<"m", 109>>,
      <<"n", 110>>,
      <<"o", 111>>,
      <<"p", 112>>,
      <<"r", 114>>,
      <<"s", 115>>,
      <<"t", 116>>,
      <<"x", 120>>,
      <<"y", 121>>,
      <<"z", 122>> }
CharCode(c) == (CHOOSE cu \in CodeUnits : cu[1] = c)[2]

\* s.startsWith(t), s.endsWith(t), s.includes(t)
StartsWith(s, t) == Len(t) <= Len(s) /\ SubSeq(s, 1, Len(t)) = t
EndsWith(s, t) == Len(t) <= Len(s) /\ SubSeq(s, Len(s) - Len(t) + 1, Len(s)) = t
Includes(s, t) == \E k \in 0..(Len(s) - Len(t)) : SubSeq(s, k + 1, k + Len(t)) = t

\* the order Array.prototype.sort() puts strings in: by code unit, a proper
\* prefix first
RECURSIVE StrLess(_, _)
StrLess(s, t) ==
    IF t = <<>> THEN FALSE
    ELSE IF s = <<>> THEN TRUE
    ELSE IF s[1] # t[1] THEN CharCode(s[1]) < CharCode(t[1])
    ELSE StrLess(Tail(s), Tail(t))

\* RawFiles without the junk-marker tests: only directories are dropped
RECURSIVE RawFiles_KeepJunk(_)
RawFiles_KeepJunk(entries) ==
    IF entries = <<>> THEN <<>>
    ELSE LET e == Head(entries)
             rest == RawFiles_KeepJunk(Tail(entries))
         IN IF ~e.dir THEN <<[path |-> e.name, entry |-> e]>> \o rest ELSE rest

\* zip.forEach(...): the entries that are kept, in archive order
RECURSIVE RawFiles(_)
RawFiles(entries) ==
    IF entries = <<>> THEN <<>>
    ELSE LET e == Head(entries)
             rest == RawFiles(Tail(entries))
         IN IF ~e.dir /\ ~Includes(e.name, MacOsx) /\ ~Includes(e.name, DsStore)
            THEN <<[path |-> e.name, entry |-> e]>> \o rest
            ELSE rest

\* sortedPaths[0] and sortedPaths[sortedPaths.length - 1]
FirstPath(paths) == CHOOSE q \in paths : \A r \in paths : ~StrLess(r, q)
\* LastPath reading sortedPaths[0] again
LastPath_AsFirst(paths) == CHOOSE q \in paths : \A r \in paths : ~StrLess(r, q)
LastPath(paths) == CHOOSE q \in paths : \A r \in paths : ~StrLess(q, r)

\* the index the while loop stops at
RECURSIVE MatchLen(_, _, _)
MatchLen(first, last, k) ==
    IF k < Len(first) /\ k < Len(last) /\ first[k + 1] = last[k + 1]
    THEN MatchLen(first, last, k + 1)
    ELSE k

\* prefix.lastIndexOf("/"), 0-based, -1 when there is none
LastIndexOfSlash(prefix) ==
    LET at == {k \in 1..Len(prefix) : prefix[k] = Slash}
    IN IF at = {} THEN -1 ELSE (CHOOSE k \in at : \A m \in at : m <= k) - 1

\* the 0-based index of the first "/" of a path, -1 when there is none
IndexOfSlash(path) ==
    LET at == {k \in 1..Len(path) : path[k] = Slash}
    IN IF at = {} THEN -1 ELSE (CHOOSE k \in at : \A m \in at : k <= m) - 1

\* CommonPrefix cutting the shared prefix at its first "/" instead of its last
CommonPrefix_TopOnly(rawFiles) ==
    IF Len(rawFiles) = 0 THEN <<>>
    ELSE LET paths == {rawFiles[k].path : k \in DOMAIN rawFiles}
             first == FirstPath(paths)
             last == LastPath(paths)
             prefix == SubSeq(first, 1, MatchLen(first, last, 0))
             firstSlash == IndexOfSlash(prefix)
             potentialPrefix == SubSeq(prefix, 1, firstSlash + 1)
         IN IF firstSlash # -1 /\ \A q \in paths : StartsWith(q, potentialPrefix)
            THEN potentialPrefix
            ELSE <<>>

\* CommonPrefix taking the folder of the first sorted path, whatever the
\* other paths are
CommonPrefix_FirstDir(rawFiles) ==
    IF Len(rawFiles) = 0 THEN <<>>
    ELSE LET paths == {rawFiles[k].path : k \in DOMAIN rawFiles}
             first == FirstPath(paths)
             lastSlash == LastIndexOfSlash(first)
         IN IF lastSlash # -1 THEN SubSeq(first, 1, lastSlash + 1) ELSE <<>>

\* step 2, up to the candidate: <<potentialPrefix>>, or <<>> when the shared
\* prefix of the first and last sorted path holds no "/"
PotentialPrefix(rawFiles) ==
    IF Len(rawFiles) = 0 THEN <<>>
    ELSE LET paths == {rawFiles[k].path : k \in DOMAIN rawFiles}
             first == FirstPath(paths)
             last == LastPath(paths)
             prefix == SubSeq(first, 1, MatchLen(first, last, 0))
             lastSlash == LastIndexOfSlash(prefix)
         IN IF lastSlash # -1 THEN <<SubSeq(prefix, 1, lastSlash + 1)>> ELSE <<>>

\* step 2: the common prefix that is stripped, "" when there is none
CommonPrefix(rawFiles) ==
    LET candidate == PotentialPrefix(rawFiles)
    IN IF candidate # <<>> /\ \A k \in DOMAIN rawFiles : StartsWith(rawFiles[k].path, candidate[1])
       THEN candidate[1]
       ELSE <<>>

\* path.substring(commonPrefix.length) when a prefix was found
FinalPath(path, commonPrefix) ==
    IF commonPrefix # <<>> THEN SubSeq(path, Len(commonPrefix) + 1, Len(path)) ELSE path

\* SumSizes counting the files instead of adding their sizes
SumSizes_Length(files) == Len(files)

RECURSIVE SumSizes(_)
SumSizes(files) == IF files = <<>> THEN 0 ELSE Head(files).size + SumSizes(Tail(files))

\* ProjectType testing package.json before index.html
ProjectType_NodeFirst(files) ==
    IF \E k \in DOMAIN files : files[k].path = PackageJson THEN "Node.js Project"
    ELSE IF \E k \in DOMAIN files : files[k].path = IndexHtml THEN "Static Website"
    ELSE "Unknown"

ProjectType(files) ==
    IF \E k \in DOMAIN files : files[k].path = IndexHtml THEN "Static Website"
    ELSE IF \E k \in DOMAIN files : files[k].path = PackageJson THEN "Node.js Project"
    ELSE "Unknown"

\* analyzeZip of a readable archive; id tells the result objects apart
analyzeZip(archive, id) ==
    LET rawFiles == RawFiles(archive.entries)
        commonPrefix == CommonPrefix(rawFiles)
        files == [k \in DOMAIN rawFiles |->
                    [path |-> FinalPath(rawFiles[k].path, commonPrefix),
                     size |-> rawFiles[k].entry.size,
                     entry |-> rawFiles[k].entry.data]]
    IN [id |-> id, fileCount |-> Len(files), totalSize |-> SumSizes(files),
        projectType |-> ProjectType(files), files |-> files]

\* ------------------------------------------------- deployZipToGitHub
NoReq == <<>>

\* the status the catch block passes to onStatus
CatchStatus(err) == Status(<<"Deployment failed">>, MessageOf(err), "error")

\* Throw that reports the error and lets the pipeline go on
Throw_Continue(err, stage, raw) ==
    /\ events' = Append(events, CatchStatus(err))
    /\ outcome' = "thrown"
    /\ outcomes' = outcomes + 1
    /\ result' = err
    /\ pc' = pc
    /\ failedStage' = stage
    /\ hostError' = raw

\* catch (error) { onStatus(error status); throw error }
Throw(err, stage, raw) ==
    /\ events' = Append(events, CatchStatus(err))
    /\ outcome' = "thrown"
    /\ outcomes' = outcomes + 1
    /\ result' = err
    /\ pc' = "done"
    /\ failedStage' = stage
    /\ hostError' = raw

\* mutant: the conflict is looked for under status 409
RepoCreationError_409(err, name) ==
    IF err.status = 409 THEN AlreadyExistsError(name) ELSE err

\* the inner catch of repository creation: the error that reaches the outer catch
RepoCreationError(err, name) ==
    IF err.status = 422 THEN AlreadyExistsError(name) ELSE err

\* the call `done` has been answered, the call `next` is issued with `args`
Advance(done, answer, next, args) ==
    /\ call' = [call EXCEPT ![done] = "ok", ![next] = "inflight"]
    /\ resp' = [resp EXCEPT ![done] = answer]
    /\ issued' = [issued EXCEPT ![next] = @ + 1]
    /\ req' = [req EXCEPT ![next] = args]

\* the call `done` has been rejected
Rejected(done) ==
    /\ call' = [call EXCEPT ![done] = "failed"]
    /\ UNCHANGED <<issued, req, resp>>

\* mutant: the slice is one file longer than the step of the loop
Batch_Wide(k, n) == (k + 1) .. Min(k + BATCH_SIZE + 1, n)

\* filesToUpload.slice(k, k + BATCH_SIZE), as the 1-based indices of its files
Batch(k, n) == (k + 1) .. Min(k + BATCH_SIZE, n)

\* mutant: the loop steps by one less than the length of the slice
NextBatchIndex_Overlap(k) == k + BATCH_SIZE - 1

\* i += BATCH_SIZE
NextBatchIndex(k) == k + BATCH_SIZE

\* the request of the createBlob call for file f
BlobRequest(f) ==
    [owner |-> owner, repo |-> repoName,
     content |-> Base64(filesToUpload[f].content), encoding |-> "base64"]

\* mutant: the path is taken by order of completion, not from the file uploaded
TreeItem_ByCompletion(f, sha) ==
    [path |-> filesToUpload[Len(treeItems) + 1].path, mode |-> filesToUpload[f].mode,
     type |-> "blob", sha |-> sha]

\* treeItems.push({ path, mode, type: "blob", sha: blob.sha })
TreeItem(f, sha) ==
    [path |-> filesToUpload[f].path, mode |-> filesToUpload[f].mode,
     type |-> "blob", sha |-> sha]

\* Progress reporting the size of the analysis after every batch
Progress_Total(k, n) == Info(<<"Uploaded", n, n>>)

\* Progress reporting the files uploaded before the batch, not after it
Progress_Before(k, n) == Info(<<"Uploaded", k, n>>)

\* `Uploaded ${Math.min(i + BATCH_SIZE, n)}/${n} files...`
Progress(k, n) == Info(<<"Uploaded", Min(k + BATCH_SIZE, n), n>>)

\* TreeRequest built on no base tree
TreeRequest_NoBase(base, items) ==
    [owner |-> owner, repo |-> repoName, base_tree |-> "", tree |-> items]

\* git.createTree({ owner, repo, base_tree: latestCommitSha, tree: treeItems })
TreeRequest(base, items) ==
    [owner |-> owner, repo |-> repoName, base_tree |-> base, tree |-> items]

\* mutant: the batch is awaited with Promise.any
BatchResolved_Any(b, k, n) == \E g \in Batch(k, n) : b[g] = "ok"

\* Promise.all(batch.map(...)) resolves when every call of the batch has succeeded
BatchResolved(b, k, n) == \A g \in Batch(k, n) : b[g] = "ok"

\* mutant: every rejected call of a batch runs the catch block
AwaitingBatch_Always == TRUE

\* the invocation is suspended at `await Promise.all(...)`: a promise settles
\* once, so a rejection after the first one of a batch resumes nothing
AwaitingBatch == pc = "blobs"

\* The deployment is invoked: the code up to the first await.
DeployStart(name, an) ==
    /\ pc' = "authenticate"
    /\ repoName' = name
    /\ analysis' = an
    /\ owner' = ""
    /\ filesToUpload' = <<>>
    /\ latestCommitSha' = ""
    /\ treeItems' = <<>>
    /\ i' = 0
    /\ events' = <<Info(<<"Authenticating...">>)>>
    /\ outcome' = "none"
    /\ result' = <<>>
    /\ call' = [o \in Ops |-> IF o = "authenticate" THEN "inflight" ELSE "none"]
    /\ issued' = [o \in Ops |-> IF o = "authenticate" THEN 1 ELSE 0]
    /\ req' = [o \in Ops |-> NoReq]
    /\ resp' = [o \in Ops |-> NoReq]
    /\ blob' = [f \in 1..Len(an.files) |-> "none"]
    /\ blobIssued' = [f \in 1..Len(an.files) |-> 0]
    /\ prepIssued' = 0
    /\ failedStage' = "none"
    /\ hostError' = <<>>
    /\ outcomes' = 0
    /\ handed' = Append(handed, an.id)

\* users.getAuthenticated() is answered with the login
AuthOk(login) ==
    /\ pc = "authenticate"
    /\ owner' = login
    /\ events' = events \o <<Success(<<"Authenticated as", login>>),
                             Info(<<"Creating repository", repoName>>)>>
    /\ Advance("authenticate", [login |-> login], "createRepo",
               [name |-> repoName, auto_init |-> TRUE])
    /\ pc' = "createRepo"
    /\ UNCHANGED <<repoName, analysis, filesToUpload, latestCommitSha, treeItems, i,
                   outcome, outcomes, result, blob, blobIssued, prepIssued, failedStage, hostError, handed,
                   hostVars, appVars, zipVars>>

AuthFail(err) ==
    /\ pc = "authenticate"
    /\ Rejected("authenticate")
    /\ Throw(err, "authenticate", err)
    /\ UNCHANGED <<repoName, analysis, owner, filesToUpload, latestCommitSha, treeItems,
                   i, blob, blobIssued, prepIssued, handed, hostVars, appVars, zipVars>>

\* after getRef, or after the last read when there is nothing to read: the
\* statuses and the call that follow the preparation of `files`
AfterPrepare(evs, files, done) ==
    /\ events' = Append(evs, Info(<<"Prepared", Len(files), "files for upload.">>))
    /\ Advance(done, [created |-> repoName], "getRef",
               [owner |-> owner, repo |-> repoName, ref |-> "heads/main"])
    /\ pc' = "getRef"

\* createForAuthenticatedUser succeeds: the repository exists from now on
CreateRepoOk ==
    /\ pc = "createRepo"
    /\ repoName \notin hostRepos
    /\ hostRepos' = hostRepos \cup {repoName}
    /\ hostRef' = [hostRef EXCEPT ![repoName] = BaseCommit]
    /\ createdBy' = [createdBy EXCEPT ![repoName] = Len(handed)]
    /\ LET evs == events \o <<Success(<<"Repository created successfully.">>),
                              Info(<<"Preparing files from analysis...">>)>>
       IN IF Len(analysis.files) = 0
          THEN /\ AfterPrepare(evs, <<>>, "createRepo")
               /\ UNCHANGED prepIssued
          ELSE /\ events' = evs
               /\ call' = [call EXCEPT !["createRepo"] = "ok"]
               /\ resp' = [resp EXCEPT !["createRepo"] = [created |-> repoName]]
               /\ prepIssued' = prepIssued + 1
               /\ pc' = "prepare"
               /\ UNCHANGED <<issued, req>>
    /\ UNCHANGED <<repoName, analysis, owner, filesToUpload, latestCommitSha, treeItems,
                   i, outcome, outcomes, result, blob, blobIssued, failedStage, hostError, handed, appVars, zipVars>>

\* CreateRepoFail taking a repository that already exists for the one to
\* deploy to: on 422 the invocation goes on as if it had created it
CreateRepoFail_Reuse(err) ==
    /\ pc = "createRepo"
    /\ err.status = 422 => repoName \in hostRepos
    /\ IF err.status = 422
       THEN LET evs == events \o <<Success(<<"Repository created successfully.">>),
                                   Info(<<"Preparing files from analysis...">>)>>
            IN /\ IF Len(analysis.files) = 0
                  THEN /\ AfterPrepare(evs, <<>>, "createRepo")
                       /\ UNCHANGED prepIssued
                  ELSE /\ events' = evs
                       /\ call' = [call EXCEPT !["createRepo"] = "ok"]
                       /\ resp' = [resp EXCEPT !["createRepo"] = [created |-> repoName]]
                       /\ prepIssued' = prepIssued + 1
                       /\ pc' = "prepare"
                       /\ UNCHANGED <<issued, req>>
               /\ UNCHANGED <<outcome, outcomes, result, failedStage, hostError>>
       ELSE /\ Rejected("createRepo")
            /\ Throw(RepoCreationError(err, repoName), "createRepo", err)
            /\ UNCHANGED prepIssued
    /\ UNCHANGED <<repoName, analysis, owner, filesToUpload, latestCommitSha, treeItems,
                   i, blob, blobIssued, handed, hostVars, appVars, zipVars>>

\* createForAuthenticatedUser is rejected: 422 when the name is taken
CreateRepoFail(err) ==
    /\ pc = "createRepo"
    /\ err.status = 422 => repoName \in hostRepos
    /\ Rejected("createRepo")
    /\ Throw(RepoCreationError(err, repoName), "createRepo", err)
    /\ UNCHANGED <<repoName, analysis, owner, filesToUpload, latestCommitSha, treeItems,
                   i, blob, blobIssued, prepIssued, handed, hostVars, appVars, zipVars>>

\* file.entry.async("uint8array") of the next file is answered
PrepareOk ==
    /\ pc = "prepare"
    /\ LET k == Len(filesToUpload) + 1
           files == Append(filesToUpload,
                           [path |-> analysis.files[k].path,
                            content |-> analysis.files[k].entry,
                            mode |-> "100644"])
       IN /\ filesToUpload' = files
          /\ IF k = Len(analysis.files)
             THEN /\ AfterPrepare(events, files, "createRepo")
                  /\ UNCHANGED prepIssued
             ELSE /\ prepIssued' = prepIssued + 1
                  /\ UNCHANGED <<events, call, issued, req, resp, pc>>
    /\ UNCHANGED <<repoName, analysis, owner, latestCommitSha, treeItems, i, outcome, outcomes,
                   result, blob, blobIssued, failedStage, hostError, handed, hostVars, appVars, zipVars>>

PrepareFail ==
    /\ pc = "prepare"
    /\ Throw(ReadError, "prepare", ReadError)
    /\ UNCHANGED <<repoName, analysis, owner, filesToUpload, latestCommitSha, treeItems,
                   i, call, issued, req, resp, blob, blobIssued, prepIssued, handed, hostVars,
                   appVars, zipVars>>

\* the batch starting at index k is issued: every call of it, in one turn
IssueBatch(b, k, n) == [g \in 1..n |-> IF g \in Batch(k, n) THEN "inflight" ELSE b[g]]

CountBatch(c, k, n) == [g \in 1..n |-> IF g \in Batch(k, n) THEN c[g] + 1 ELSE c[g]]

\* the batch loop is left (or never entered): createTree is issued with `items`
StartTree(evs, base, items) ==
    /\ events' = Append(evs, Info(<<"Creating file tree...">>))
    /\ issued' = [issued EXCEPT !["createTree"] = @ + 1]
    /\ req' = [req EXCEPT !["createTree"] = TreeRequest(base, items)]
    /\ pc' = "createTree"

\* git.getRef is answered with the head of heads/main
GetRefOk ==
    /\ pc = "getRef"
    /\ repoName \in hostRepos
    /\ latestCommitSha' = hostRef[repoName]
    /\ resp' = [resp EXCEPT !["getRef"] = [sha |-> hostRef[repoName]]]
    /\ LET n == Len(filesToUpload)
           evs == Append(events, Info(<<"Uploading files (creating blobs)...">>))
       IN IF 0 < n
          THEN /\ events' = evs
               /\ blob' = IssueBatch(blob, 0, n)
               /\ blobIssued' = CountBatch(blobIssued, 0, n)
               /\ call' = [call EXCEPT !["getRef"] = "ok"]
               /\ pc' = "blobs"
               /\ UNCHANGED <<issued, req>>
          ELSE /\ StartTree(evs, hostRef[repoName], treeItems)
               /\ call' = [call EXCEPT !["getRef"] = "ok", !["createTree"] = "inflight"]
               /\ UNCHANGED <<blob, blobIssued>>
    /\ UNCHANGED <<repoName, analysis, owner, filesToUpload, treeItems, i, outcome, outcomes,
                   result, prepIssued, failedStage, hostError, handed, hostVars, appVars, zipVars>>

GetRefFail(err) ==
    /\ pc = "getRef"
    /\ Rejected("getRef")
    /\ Throw(err, "getRef", err)
    /\ UNCHANGED <<repoName, analysis, owner, filesToUpload, latestCommitSha, treeItems,
                   i, blob, blobIssued, prepIssued, handed, hostVars, appVars, zipVars>>

\* git.createBlob for file f is answered with a sha.  The callback pushes the
\* tree item; when this was the last call of the batch awaited by Promise.all,
\* the loop body continues: progress status, next batch or createTree.
BlobOk(f) ==
    /\ f \in DOMAIN blob
    /\ blob[f] = "inflight"
    /\ LET n == Len(filesToUpload)
           b == [blob EXCEPT ![f] = "ok"]
           items == Append(treeItems, TreeItem(f, BlobSha(BlobRequest(f))))
           k == NextBatchIndex(i)
       IN /\ treeItems' = items
          /\ IF AwaitingBatch /\ BatchResolved(b, i, n)
             THEN /\ i' = k
                  /\ IF k < n
                     THEN /\ events' = Append(events, Progress(i, n))
                          /\ blob' = IssueBatch(b, k, n)
                          /\ blobIssued' = CountBatch(blobIssued, k, n)
                          /\ UNCHANGED <<call, issued, req, pc>>
                     ELSE /\ StartTree(Append(events, Progress(i, n)), latestCommitSha, items)
                          /\ call' = [call EXCEPT !["createTree"] = "inflight"]
                          /\ blob' = b
                          /\ UNCHANGED blobIssued
             ELSE /\ blob' = b
                  /\ UNCHANGED <<i, events, call, issued, req, pc, blobIssued>>
    /\ UNCHANGED <<repoName, analysis, owner, filesToUpload, latestCommitSha, resp, outcome, outcomes,
                   result, prepIssued, failedStage, hostError, handed, hostVars, appVars, zipVars>>

\* git.createBlob for file f is rejected.  Promise.all rejects with the first
\* rejection, so the catch block runs in this turn if no call of the batch was
\* rejected before; a later rejection of the same batch is ignored.
BlobFail(f, err) ==
    /\ f \in DOMAIN blob
    /\ blob[f] = "inflight"
    /\ blob' = [blob EXCEPT ![f] = "failed"]
    /\ IF AwaitingBatch
       THEN Throw(err, "blobs", err)
       ELSE UNCHANGED <<events, outcome, outcomes, result, pc, failedStage, hostError>>
    /\ UNCHANGED <<repoName, analysis, owner, filesToUpload, latestCommitSha, treeItems,
                   i, call, issued, req, resp, blobIssued, prepIssued, handed, hostVars,
                   appVars, zipVars>>

\* git.createTree is answered with the sha of the tree
CreateTreeOk ==
    /\ pc = "createTree"
    /\ events' = Append(events, Info(<<"Creating commit...">>))
    /\ Advance("createTree", [sha |-> TreeSha(req["createTree"])], "createCommit",
               [owner |-> owner, repo |-> repoName,
                message |-> "Deploy project via ZipToRepo",
                tree |-> TreeSha(req["createTree"]),
                parents |-> <<latestCommitSha>>])
    /\ pc' = "createCommit"
    /\ UNCHANGED <<repoName, analysis, owner, filesToUpload, latestCommitSha, treeItems,
                   i, outcome, outcomes, result, blob, blobIssued, prepIssued, failedStage, hostError, handed,
                   hostVars, appVars, zipVars>>

CreateTreeFail(err) ==
    /\ pc = "createTree"
    /\ Rejected("createTree")
    /\ Throw(err, "createTree", err)
    /\ UNCHANGED <<repoName, analysis, owner, filesToUpload, latestCommitSha, treeItems,
                   i, blob, blobIssued, prepIssued, handed, hostVars, appVars, zipVars>>

\* git.createCommit is answered with the sha of the commit
CreateCommitOk ==
    /\ pc = "createCommit"
    /\ events' = Append(events, Info(<<"Updating repository reference...">>))
    /\ Advance("createCommit", [sha |-> CommitSha(req["createCommit"])], "updateRef",
               [owner |-> owner, repo |-> repoName, ref |-> "heads/main",
                sha |-> CommitSha(req["createCommit"])])
    /\ pc' = "updateRef"
    /\ UNCHANGED <<repoName, analysis, owner, filesToUpload, latestCommitSha, treeItems,
                   i, outcome, outcomes, result, blob, blobIssued, prepIssued, failedStage, hostError, handed,
                   hostVars, appVars, zipVars>>

CreateCommitFail(err) ==
    /\ pc = "createCommit"
    /\ Rejected("createCommit")
    /\ Throw(err, "createCommit", err)
    /\ UNCHANGED <<repoName, analysis, owner, filesToUpload, latestCommitSha, treeItems,
                   i, blob, blobIssued, prepIssued, handed, hostVars, appVars, zipVars>>

\* git.updateRef succeeds: the branch moves, the URL is reported and returned
UpdateRefOk ==
    /\ pc = "updateRef"
    /\ hostRef' = [hostRef EXCEPT ![repoName] = req["updateRef"].sha]
    /\ call' = [call EXCEPT !["updateRef"] = "ok"]
    /\ resp' = [resp EXCEPT !["updateRef"] = [moved |-> req["updateRef"].sha]]
    /\ events' = Append(events, Status(<<"Deployment complete!">>,
                                       RepoUrl(owner, repoName), "success"))
    /\ outcome' = "returned"
    /\ outcomes' = outcomes + 1
    /\ result' = RepoUrl(owner, repoName)
    /\ pc' = "done"
    /\ UNCHANGED <<repoName, analysis, owner, filesToUpload, latestCommitSha, treeItems,
                   i, issued, req, blob, blobIssued, prepIssued, failedStage, hostError, handed,
                   hostRepos, createdBy, appVars, zipVars>>

UpdateRefFail(err) ==
    /\ pc = "updateRef"
    /\ Rejected("updateRef")
    /\ Throw(err, "updateRef", err)
    /\ UNCHANGED <<repoName, analysis, owner, filesToUpload, latestCommitSha, treeItems,
                   i, blob, blobIssued, prepIssued, handed, hostVars, appVars, zipVars>>

\* ------------------------------------------------------ specifications
NoFile == "null"
NoError == <<>>
NoUrl == <<>>

HostInit ==
    /\ hostRepos \in SUBSET RepoNames
    /\ hostRef = [r \in RepoNames |-> IF r \in hostRepos THEN PriorCommit ELSE "none"]
    /\ createdBy = [r \in RepoNames |-> 0]

IdleInit ==
    /\ pc = "idle"
    /\ repoName = ""
    /\ analysis = NoAnalysis
    /\ owner = ""
    /\ filesToUpload = <<>>
    /\ latestCommitSha = ""
    /\ treeItems = <<>>
    /\ i = 0
    /\ events = <<>>
    /\ outcome = "none"
    /\ result = <<>>
    /\ call = [o \in Ops |-> "none"]
    /\ issued = [o \in Ops |-> 0]
    /\ req = [o \in Ops |-> NoReq]
    /\ resp = [o \in Ops |-> NoReq]
    /\ blob = <<>>
    /\ blobIssued = <<>>
    /\ prepIssued = 0
    /\ failedStage = "none"
    /\ hostError = <<>>
    /\ outcomes = 0
    /\ handed = <<>>

AppInit ==
    /\ step = 1
    /\ token = ""
    /\ appRepoName = ""
    /\ pending = {}
    /\ file = NoFile
    /\ uiAnalysis = NoAnalysis
    /\ isDeploying = FALSE
    /\ error = NoError
    /\ deployedUrl = NoUrl
    /\ validationError = <<>>
    /\ drops = 0

NoArchive == [label |-> "none", name |-> <<>>, readable |-> FALSE, entries |-> <<>>]

ZipInit ==
    /\ zipFile = NoArchive
    /\ zipResult = NoAnalysis
    /\ zipCandidate = <<>>
    /\ zipPrefix = <<>>

Init == IdleInit /\ HostInit /\ AppInit /\ ZipInit

\* deployZipToGitHub is invoked once, with any repository name and analysis
Invoke ==
    /\ pc = "idle"
    /\ \E name \in RepoNames, n \in 0..MaxFiles :
         \E content \in [1..n -> Contents] :
            DeployStart(name, AnalysisOf(1, n, content))
    /\ UNCHANGED <<hostVars, appVars, zipVars>>

\* the answers of the host (and of the zip reader) to the calls awaited one at a time
RespondStage ==
    \/ \E login \in Logins : AuthOk(login)
    \/ \E err \in HostErrors : AuthFail(err)
    \/ CreateRepoOk
    \/ \E err \in HostErrors \cup {ConflictError} : CreateRepoFail(err)
    \/ PrepareOk
    \/ PrepareFail
    \/ GetRefOk
    \/ \E err \in HostErrors : GetRefFail(err)
    \/ CreateTreeOk
    \/ \E err \in HostErrors : CreateTreeFail(err)
    \/ CreateCommitOk
    \/ \E err \in HostErrors : CreateCommitFail(err)
    \/ UpdateRefOk
    \/ \E err \in HostErrors : UpdateRefFail(err)

Next ==
    \/ Invoke
    \/ RespondStage
    \/ \E f \in DOMAIN blob : BlobOk(f)
    \/ \E f \in DOMAIN blob, err \in HostErrors : BlobFail(f, err)

Spec == Init /\ [][Next]_vars

\* --------------------------------------------------------------- App
\* the files the user can drop on the wizard
\* a static site under one folder
SiteArchive ==
    [label |-> "site", name |-> <<"s", "i", "t", "e", ".", "z", "i", "p">>, readable |-> TRUE,
     entries |-> <<[name |-> <<"s", "i", "t", "e", "/">>, dir |-> TRUE, size |-> 0, data |-> "x"],
            [name |-> <<"s", "i", "t", "e", "/", "i", "n", "d", "e", "x", ".", "h", "t", "m", "l">>, dir |-> FALSE, size |-> 2, data |-> "x"],
            [name |-> <<"s", "i", "t", "e", "/", "s", "t", "y", "l", "e", ".", "c", "s", "s">>, dir |-> FALSE, size |-> 3, data |-> "y"]>>]
\* nothing but operating-system metadata
JunkArchive ==
    [label |-> "junk", name |-> <<"x", ".", "z", "i", "p">>, readable |-> TRUE,
     entries |-> <<[name |-> <<"_", "_", "M", "A", "C", "O", "S", "X", "/", ".", "_", "i", "n", "d", "e", "x", ".", "h", "t", "m", "l">>, dir |-> FALSE, size |-> 1, data |-> "x"],
            [name |-> <<".", "D", "S", "_", "S", "t", "o", "r", "e">>, dir |-> FALSE, size |-> 1, data |-> "x"]>>]
\* mixed roots, index.html one folder down
NestedArchive ==
    [label |-> "nested", name |-> <<"a", ".", "z", "i", "p">>, readable |-> TRUE,
     entries |-> <<[name |-> <<"a", "/", "i", "n", "d", "e", "x", ".", "h", "t", "m", "l">>, dir |-> FALSE, size |-> 2, data |-> "x"],
            [name |-> <<"b", "/", "r", "e", "a", "d", "m", "e">>, dir |-> FALSE, size |-> 1, data |-> "y"]>>]
\* package.json at the root
NodeArchive ==
    [label |-> "node", name |-> <<"b", ".", "z", "i", "p">>, readable |-> TRUE,
     entries |-> <<[name |-> <<"p", "a", "c", "k", "a", "g", "e", ".", "j", "s", "o", "n">>, dir |-> FALSE, size |-> 4, data |-> "x"]>>]
\* neither marker file
DocsArchive ==
    [label |-> "docs", name |-> <<"d", "o", "c", "s", ".", "z", "i", "p">>, readable |-> TRUE,
     entries |-> <<[name |-> <<"d", "o", "c", "s", "/", "r", "e", "a", "d", "m", "e">>, dir |-> FALSE, size |-> 1, data |-> "x"]>>]
\* not a readable zip
BrokenArchive ==
    [label |-> "broken", name |-> <<"x", ".", "z", "i", "p">>, readable |-> FALSE,
     entries |-> <<>>]
\* a file that is no .zip
TextFile ==
    [label |-> "text", name |-> <<"r", "e", "a", "d", "m", "e", ".", "t", "x", "t">>, readable |-> TRUE,
     entries |-> <<>>]
Archives == {SiteArchive, JunkArchive, NestedArchive, NodeArchive, DocsArchive, BrokenArchive, TextFile}

Tokens == {"", "ghp_x"}
\* token.startsWith("ghp_") || token.startsWith("github_pat_")
TokenAccepted(t) == t \in {"ghp_x", "github_pat_x"}

\* f.path.match(/^[^/]+\/name$/): one non-empty folder name, a slash, the name
MatchesNested(path, name) ==
    /\ Len(path) > Len(name) + 1
    /\ EndsWith(path, <<Slash>> \o name)
    /\ \A k \in 1..(Len(path) - Len(name) - 1) : path[k] # Slash

\* the strict check onDrop applies to an analysis of unknown type
HasMarker(an, name) ==
    \E k \in DOMAIN an.files :
        an.files[k].path = name \/ MatchesNested(an.files[k].path, name)

Accepted(an) ==
    an.projectType # "Unknown" \/ HasMarker(an, IndexHtml) \/ HasMarker(an, PackageJson)

\* The continuation of handleDeploy is a microtask of the turn that settles the
\* invocation: while it is due, no other event is handled.
Settling == isDeploying /\ outcome # "none"

\* the Next Step / Back buttons and the inputs of steps 1 and 2
SetToken(t) ==
    /\ step = 1
    /\ token' = t
    /\ UNCHANGED <<invVars, histVars, hostVars, zipVars>>
    /\ UNCHANGED <<step, appRepoName, file, uiAnalysis, isDeploying, error, deployedUrl,
                   validationError, drops, pending>>

SetRepoName(name) ==
    /\ step = 2
    /\ appRepoName' = name
    /\ UNCHANGED <<invVars, histVars, hostVars, zipVars>>
    /\ UNCHANGED <<step, token, file, uiAnalysis, isDeploying, error, deployedUrl,
                   validationError, drops, pending>>

NextStep ==
    /\ \/ step = 1 /\ TokenAccepted(token)
       \/ step = 2 /\ appRepoName # ""
    /\ step' = step + 1
    /\ UNCHANGED <<invVars, histVars, hostVars, zipVars>>
    /\ UNCHANGED <<token, appRepoName, file, uiAnalysis, isDeploying, error, deployedUrl,
                   validationError, drops, pending>>

Back ==
    /\ step \in {2, 3}
    /\ step' = step - 1
    /\ UNCHANGED <<invVars, histVars, hostVars, zipVars>>
    /\ UNCHANGED <<token, appRepoName, file, uiAnalysis, isDeploying, error, deployedUrl,
                   validationError, drops, pending>>

\* onDrop up to `await analyzeZip(selectedFile)`; accepted is acceptedFiles
onDrop(accepted) ==
    /\ step = 3
    /\ drops < MaxDrops
    /\ drops' = drops + 1
    /\ file' = NoFile
    /\ uiAnalysis' = NoAnalysis
    /\ IF Len(accepted) > 0
       THEN IF ~EndsWith(accepted[1].name, DotZip)
            THEN /\ validationError' = <<"Please upload a valid .zip file">>
                 /\ UNCHANGED pending
            ELSE /\ validationError' = <<>>
                 /\ pending' = pending \cup {[archive |-> accepted[1], id |-> drops + 1]}
       ELSE /\ validationError' = <<>>
            /\ UNCHANGED pending
    /\ UNCHANGED <<invVars, histVars, hostVars, zipVars>>
    /\ UNCHANGED <<step, token, appRepoName, isDeploying, error, deployedUrl>>

\* onDrop from the answer of analyzeZip on: the analysis is stored or refused
onDropAnalyzed(p) ==
    /\ p \in pending
    /\ ~Settling
    /\ pending' = pending \ {p}
    /\ IF ~p.archive.readable
       THEN /\ validationError' = <<"Failed to read or analyze ZIP file.">>
            /\ UNCHANGED <<file, uiAnalysis>>
       ELSE LET analysisResult == analyzeZip(p.archive, p.id)
            IN IF Accepted(analysisResult)
               THEN /\ uiAnalysis' = analysisResult
                    /\ file' = p.archive.label
                    /\ UNCHANGED validationError
               ELSE /\ validationError' =
                         <<"Invalid ZIP: Must contain 'index.html' or 'package.json' at the root.">>
                    /\ UNCHANGED <<file, uiAnalysis>>
    /\ UNCHANGED <<invVars, histVars, hostVars, zipVars>>
    /\ UNCHANGED <<step, token, appRepoName, isDeploying, error, deployedUrl, drops>>

\* handleDeploy up to `await deployZipToGitHub(...)`; the button is the one
\* of step 3, disabled while no file is stored
handleDeploy ==
    /\ step = 3
    /\ file # NoFile
    /\ Len(handed) < MaxAttempts
    /\ IF token = "" \/ appRepoName = "" \/ uiAnalysis = NoAnalysis
       THEN UNCHANGED <<invVars, histVars, step, isDeploying, error>>
       ELSE /\ step' = 4
            /\ isDeploying' = TRUE
            /\ error' = NoError
            /\ DeployStart(appRepoName, uiAnalysis)
    /\ UNCHANGED <<hostVars, zipVars, token, appRepoName, file, uiAnalysis, deployedUrl,
                   validationError, drops, pending>>

\* handleDeploy after the await: the URL or the error is stored
handleDeploySettled ==
    /\ isDeploying
    /\ outcome # "none"
    /\ isDeploying' = FALSE
    /\ IF outcome = "returned"
       THEN /\ deployedUrl' = result
            /\ step' = 5
            /\ UNCHANGED error
       ELSE /\ error' = IF result.message # <<>> THEN result.message
                                                 ELSE <<"Deployment failed">>
            /\ UNCHANGED <<deployedUrl, step>>
    /\ UNCHANGED <<invVars, histVars, hostVars, zipVars, token, appRepoName, file, uiAnalysis,
                   validationError, drops, pending>>

\* the Deploy Another button of step 5
DeployAnother ==
    /\ step = 5
    /\ step' = 1
    /\ file' = NoFile
    /\ UNCHANGED <<invVars, histVars, hostVars, zipVars>>
    /\ UNCHANGED <<token, appRepoName, uiAnalysis, isDeploying, error, deployedUrl,
                   validationError, drops, pending>>

\* the Try Again button, shown on the card of steps 4 and 5 while error is set
TryAgain ==
    /\ step \in {4, 5}
    /\ error # NoError
    /\ step' = 3
    /\ UNCHANGED <<invVars, histVars, hostVars, zipVars>>
    /\ UNCHANGED <<token, appRepoName, file, uiAnalysis, isDeploying, error, deployedUrl,
                   validationError, drops, pending>>

AppNext ==
    \/ \E t \in Tokens : SetToken(t)
    \/ \E name \in RepoNames \cup {""} : SetRepoName(name)
    \/ NextStep
    \/ Back
    \/ \E a \in Archives : onDrop(<<a>>)
    \/ onDrop(<<>>)
    \/ \E p \in pending : onDropAnalyzed(p)
    \/ handleDeploy
    \/ handleDeploySettled
    \/ DeployAnother
    \/ TryAgain
    \/ RespondStage
    \/ \E f \in DOMAIN blob : ~Settling /\ BlobOk(f)
    \/ \E f \in DOMAIN blob, err \in HostErrors : ~Settling /\ BlobFail(f, err)

SpecApp == Init /\ [][AppNext]_vars

\* the wizard at step 3 with the token and the repository name entered and
\* one accepted archive dropped, analysed and stored
StoredInit ==
    /\ IdleInit
    /\ HostInit
    /\ ZipInit
    /\ step = 3
    /\ token \in {t \in Tokens : TokenAccepted(t)}
    /\ appRepoName \in RepoNames
    /\ pending = {}
    /\ \E a \in Archives :
          /\ a.readable
          /\ EndsWith(a.name, DotZip)
          /\ Accepted(analyzeZip(a, 1))
          /\ file = a.label
          /\ uiAnalysis = analyzeZip(a, 1)
    /\ isDeploying = FALSE
    /\ error = NoError
    /\ deployedUrl = NoUrl
    /\ validationError = <<>>
    /\ drops = 1

\* the wizard from there on while the user drops no other file
DeployNext ==
    \/ \E t \in Tokens : SetToken(t)
    \/ \E name \in RepoNames \cup {""} : SetRepoName(name)
    \/ NextStep
    \/ Back
    \/ handleDeploy
    \/ handleDeploySettled
    \/ DeployAnother
    \/ TryAgain
    \/ RespondStage
    \/ \E f \in DOMAIN blob : ~Settling /\ BlobOk(f)
    \/ \E f \in DOMAIN blob, err \in HostErrors : ~Settling /\ BlobFail(f, err)

SpecDeploy == StoredInit /\ [][DeployNext]_vars


\* ------------------------------------------------ analyzeZip on its own
\* The entries the archives given to analyzeZip are made of: files at the
\* root, in one folder, in nested folders (one named like its parent), in
\* folders whose names share characters, operating-system metadata, directory
\* entries, and a non-directory entry whose name ends with "/".
EntryPool ==
    { [name |-> <<"x">>, dir |-> FALSE, size |-> 1, data |-> "x"],
      [name |-> <<"i", "n", "d", "e", "x", ".", "h", "t", "m", "l">>, dir |-> FALSE, size |-> 2, data |-> "x"],
      [name |-> <<"p", "a", "c", "k", "a", "g", "e", ".", "j", "s", "o", "n">>, dir |-> FALSE, size |-> 3, data |-> "x"],
      [name |-> <<".", "D", "S", "_", "S", "t", "o", "r", "e">>, dir |-> FALSE, size |-> 1, data |-> "x"],
      [name |-> <<"a", "/", "x">>, dir |-> FALSE, size |-> 0, data |-> "x"],
      [name |-> <<"a", "/", "i", "n", "d", "e", "x", ".", "h", "t", "m", "l">>, dir |-> FALSE, size |-> 2, data |-> "x"],
      [name |-> <<"a", "/", "p", "a", "c", "k", "a", "g", "e", ".", "j", "s", "o", "n">>, dir |-> FALSE, size |-> 1, data |-> "x"],
      [name |-> <<"a", "/", ".", "D", "S", "_", "S", "t", "o", "r", "e">>, dir |-> FALSE, size |-> 1, data |-> "x"],
      [name |-> <<"a", "/", "a", "/", "x">>, dir |-> FALSE, size |-> 2, data |-> "x"],
      [name |-> <<"a", "/", "a", "/", "i", "n", "d", "e", "x", ".", "h", "t", "m", "l">>, dir |-> FALSE, size |-> 1, data |-> "x"],
      [name |-> <<"a", "/", "b", "/", "x">>, dir |-> FALSE, size |-> 1, data |-> "x"],
      [name |-> <<"a", "/", "b", "x">>, dir |-> FALSE, size |-> 3, data |-> "x"],
      [name |-> <<"a", "b", "/", "x">>, dir |-> FALSE, size |-> 1, data |-> "x"],
      [name |-> <<"b", "/", "i", "n", "d", "e", "x", ".", "h", "t", "m", "l">>, dir |-> FALSE, size |-> 2, data |-> "x"],
      [name |-> <<"_", "_", "M", "A", "C", "O", "S", "X", "/", "a", "/", "x">>, dir |-> FALSE, size |-> 1, data |-> "x"],
      [name |-> <<"a", "/">>, dir |-> TRUE, size |-> 0, data |-> "x"],
      [name |-> <<"b", "/">>, dir |-> TRUE, size |-> 0, data |-> "x"],
      [name |-> <<"c", "/">>, dir |-> FALSE, size |-> 1, data |-> "x"] }

\* zip.files is keyed by entry name: the names of an archive are distinct
DistinctNames(S) == \A d, e \in S : d.name = e.name => d = e

RECURSIVE Ascending(_)
Ascending(S) ==
    IF S = {} THEN <<>>
    ELSE LET e == CHOOSE d \in S : \A c \in S : ~StrLess(c.name, d.name)
         IN <<e>> \o Ascending(S \ {e})

RECURSIVE Reverse(_)
Reverse(seq) == IF seq = <<>> THEN <<>> ELSE Reverse(Tail(seq)) \o <<Head(seq)>>

\* the archives: at most MaxEntries entries, stored in either order
ZipArchives ==
    LET sets == {S \in SUBSET EntryPool : Cardinality(S) <= MaxEntries /\ DistinctNames(S)}
        orders == {Ascending(S) : S \in sets} \cup {Reverse(Ascending(S)) : S \in sets}
    IN {[label |-> "zip", name |-> <<"a", ".", "z", "i", "p">>, readable |-> TRUE,
         entries |-> es] : es \in orders}

AnalyzeInit ==
    /\ IdleInit
    /\ hostRepos = {}
    /\ hostRef = [r \in RepoNames |-> "none"]
    /\ createdBy = [r \in RepoNames |-> 0]
    /\ AppInit
    /\ zipFile \in ZipArchives
    /\ zipResult = NoAnalysis
    /\ zipCandidate = <<>>
    /\ zipPrefix = <<>>

\* one call of analyzeZip(zipFile)
Analyze ==
    /\ zipResult.id = 0
    /\ zipFile.readable
    /\ zipResult' = analyzeZip(zipFile, 1)
    /\ zipCandidate' = PotentialPrefix(RawFiles(zipFile.entries))
    /\ zipPrefix' = CommonPrefix(RawFiles(zipFile.entries))
    /\ UNCHANGED <<invVars, histVars, hostVars, appVars, zipFile>>

SpecAnalyze == AnalyzeInit /\ [][Analyze]_vars

\* ------------------------------------------------------------- claims
Range(seq) == {seq[k] : k \in DOMAIN seq}
Last(seq) == seq[Len(seq)]
InFlightBlobs == {f \in DOMAIN blob : blob[f] = "inflight"}
IssuedBlobs == {f \in DOMAIN blob : blob[f] # "none"}
ErrorEvents == {k \in DOMAIN events : events[k].type = "error"}

\* C1: host calls respect the stage order: the repository has been created
\* before any createBlob call is issued, every createBlob call has succeeded
\* before createTree is issued, createTree has succeeded before createCommit
\* is issued, and createCommit has succeeded before updateRef is issued.
StageOrder ==
    /\ IssuedBlobs # {} => call["createRepo"] = "ok"
    /\ call["createTree"] # "none" =>
          /\ call["createRepo"] = "ok"
          /\ DOMAIN blob = 1..analysis.fileCount
          /\ \A f \in DOMAIN blob : blob[f] = "ok"
    /\ call["createCommit"] # "none" => call["createTree"] = "ok"
    /\ call["updateRef"] # "none" => call["createCommit"] = "ok"

\* a deployment of two batches has gone through every stage
StageOrderWitness ==
    /\ outcome = "returned"
    /\ analysis.fileCount > BATCH_SIZE
    /\ call["updateRef"] = "ok"

\* C2: at most BATCH_SIZE createBlob calls are in flight, in every state,
\* rejected calls included.
BlobConcurrencyBound == Cardinality(InFlightBlobs) <= BATCH_SIZE

\* a call of a full first batch has been rejected while the rest of the batch
\* is still in flight
BlobConcurrencyWitness ==
    /\ analysis.fileCount > BATCH_SIZE
    /\ Cardinality(InFlightBlobs) = BATCH_SIZE - 1
    /\ \E f \in DOMAIN blob : blob[f] = "failed"

\* the batch a file belongs to: files[k*BATCH_SIZE .. (k+1)*BATCH_SIZE-1], 0-based
BatchNo(f) == (f - 1) \div BATCH_SIZE

\* C3: no createBlob call of a later batch is issued until every createBlob
\* call of the batches before it has completed.
BatchBarrier ==
    \A f, g \in DOMAIN blob :
        BatchNo(f) < BatchNo(g) /\ blob[g] # "none" => blob[f] \in {"ok", "failed"}

\* a call of the second batch is in flight
BatchBarrierWitness ==
    \E g \in DOMAIN blob : BatchNo(g) = 1 /\ blob[g] = "inflight"

\* the tree items of `items` whose path is that of file k of the analysis
ItemsOf(items, k) == {j \in DOMAIN items : items[j].path = analysis.files[k].path}

\* C4: a successful deployment has passed to createTree exactly fileCount
\* items, one per path of the analysis, each with the sha the host returned
\* for the content of that file.
TreeItemsComplete ==
    outcome = "returned" =>
        LET items == req["createTree"].tree
        IN /\ Len(items) = analysis.fileCount
           /\ \A k \in DOMAIN analysis.files :
                 /\ Cardinality(ItemsOf(items, k)) = 1
                 /\ \A j \in ItemsOf(items, k) :
                       items[j].sha = <<"blob", analysis.files[k].entry>>

\* a successful deployment of two batches whose items are not in file order
\* and whose files differ in content
TreeItemsWitness ==
    /\ outcome = "returned"
    /\ analysis.fileCount > BATCH_SIZE
    /\ req["createTree"].tree[1].path # analysis.files[1].path
    /\ analysis.files[1].entry # analysis.files[2].entry

\* C5: a name conflict at repository creation halts the deployment: the
\* error status says the repository already exists, that error is thrown,
\* createRepo was issued once, and no later call is ever issued.
ConflictHalts ==
    (failedStage = "createRepo" /\ hostError.status = 422) =>
        /\ outcome = "thrown"
        /\ result.message = <<"Repository", repoName, "already exists.">>
        /\ Last(events).type = "error"
        /\ Last(events).details = <<"Repository", repoName, "already exists.">>
        /\ issued["createRepo"] = 1
        /\ \A o \in {"getRef", "createTree", "createCommit", "updateRef"} : issued[o] = 0
        /\ \A f \in DOMAIN blobIssued : blobIssued[f] = 0
        /\ prepIssued = 0

\* repository creation was answered with a conflict
ConflictWitness ==
    /\ failedStage = "createRepo"
    /\ hostError.status = 422
    /\ analysis.fileCount > 0

\* C6: a terminated invocation has produced exactly one outcome; it has
\* emitted exactly one error status if it threw, as its last status, and none
\* otherwise.
OneOutcome ==
    /\ outcomes <= 1
    /\ (pc = "done") <=> (outcomes = 1)
    /\ (outcomes = 1) <=> (outcome # "none")
    /\ outcome = "thrown" =>
          /\ Cardinality(ErrorEvents) = 1
          /\ Last(events).type = "error"
    /\ outcome # "thrown" => ErrorEvents = {}

\* an invocation has thrown and a second call of the batch was rejected after
OneOutcomeWitness ==
    /\ outcome = "thrown"
    /\ Cardinality({f \in DOMAIN blob : blob[f] = "failed"}) >= 2

\* words of a status that name a stage
StageWords ==
    [authenticate |-> {"Authenticating...", "Authenticated as", "authenticate"},
     createRepo |-> {"Repository", "Creating repository", "createRepo"},
     prepare |-> {"Preparing files from analysis...", "Corrupted zip", "prepare"},
     getRef |-> {"getRef"},
     blobs |-> {"Uploading files (creating blobs)...", "Uploaded", "createBlob"},
     createTree |-> {"Creating file tree...", "createTree"},
     createCommit |-> {"Creating commit...", "createCommit"},
     updateRef |-> {"Updating repository reference...", "updateRef"}]

\* C7 (as claimed): the terminal error status names the stage that failed.
ErrorNamesStage ==
    outcome = "thrown" =>
        \E w \in StageWords[failedStage] :
            w \in Range(Last(events).step) \cup Range(Last(events).details)

\* C8 (as claimed): when the outcome is produced, no host call is in flight.
OutcomeAfterAllResponses ==
    outcome # "none" =>
        /\ \A o \in Ops : call[o] # "inflight"
        /\ InFlightBlobs = {}

\* C9: no host call is issued twice in one invocation: each operation at most
\* once, createBlob at most once per file of the analysis.
NoRetry ==
    /\ \A o \in Ops : issued[o] <= 1
    /\ DOMAIN blobIssued = 1..analysis.fileCount
    /\ \A f \in DOMAIN blobIssued : blobIssued[f] <= 1
    /\ prepIssued <= analysis.fileCount

\* an invocation that failed in its second batch, every call issued once
NoRetryWitness ==
    /\ outcome = "thrown"
    /\ failedStage = "blobs"
    /\ \A f \in DOMAIN blobIssued : blobIssued[f] = 1
    /\ analysis.fileCount > BATCH_SIZE

\* C10 (as claimed): no analysis is passed to deployZipToGitHub twice, whatever
\* the user does in the wizard.
AnalysisHandedOnce ==
    \A j, k \in DOMAIN handed : j # k => handed[j] # handed[k]

IsPrefix(s, t) == Len(s) <= Len(t) /\ SubSeq(t, 1, Len(s)) = s

\* C11: a successful deployment ends its status stream with a success status
\* whose details are https://github.com/<login answered by authenticate>/<the
\* repository name given>, returns that same URL, and emits the status only
\* after updateRef has succeeded.
SuccessUrl ==
    /\ outcome = "returned" =>
          LET url == <<"https://github.com/", resp["authenticate"].login, "/", repoName>>
          IN /\ Last(events) = [step |-> <<"Deployment complete!">>, details |-> url,
                                type |-> "success"]
             /\ result = url
    /\ \A k \in DOMAIN events :
          events[k].step = <<"Deployment complete!">> =>
              /\ call["updateRef"] = "ok"
              /\ k = Len(events)

\* a deployment of files has succeeded and returned the URL of octocat/site
SuccessUrlWitness ==
    /\ outcome = "returned"
    /\ analysis.fileCount > 0
    /\ resp["authenticate"].login = "octocat"
    /\ result = <<"https://github.com/", "octocat", "/", "site">>

\* ---- analyzeZip: what the archive holds and what was returned
Analyzed == zipResult.id # 0
JunkEntry(e) == Includes(e.name, MacOsx) \/ Includes(e.name, DsStore)
Survives(e) == ~e.dir /\ ~JunkEntry(e)
Surviving == SelectSeq(zipFile.entries, Survives)
SurvivingPaths == {Surviving[k].name : k \in DOMAIN Surviving}
ReturnedPaths == {zipResult.files[k].path : k \in DOMAIN zipResult.files}
HasSlash(path) == \E k \in DOMAIN path : path[k] = Slash
\* the first segment of a path that has a separator
TopSegment(path) ==
    SubSeq(path, 1, (CHOOSE k \in DOMAIN path :
                        path[k] = Slash /\ \A j \in 1..(k - 1) : path[j] # Slash) - 1)
\* the surviving entries all lie under one top-level folder
UnderOneFolder ==
    /\ Surviving # <<>>
    /\ \A q \in SurvivingPaths : HasSlash(q)
    /\ \A q, r \in SurvivingPaths : TopSegment(q) = TopSegment(r)
TheFolder == TopSegment(Surviving[1].name)
\* the folder prefixes of a path: its initial parts that end with a separator
FolderPrefixes(path) == {SubSeq(path, 1, k) : k \in {j \in DOMAIN path : path[j] = Slash}}
\* the longest folder prefix all the given paths share
SharedFolderPrefix(paths) ==
    LET shared == {pre \in FolderPrefixes(CHOOSE q \in paths : TRUE) :
                      \A q \in paths : StartsWith(q, pre)}
    IN CHOOSE pre \in shared : \A other \in shared : Len(other) <= Len(pre)

\* C12 (as claimed): when the surviving entries all lie under one top-level
\* folder F, no returned path begins with a separator or with F followed by a
\* separator.
SingleRootStripped ==
    (Analyzed /\ UnderOneFolder) =>
        \A q \in ReturnedPaths :
            /\ ~StartsWith(q, <<Slash>>)
            /\ ~StartsWith(q, TheFolder \o <<Slash>>)

\* C12 (amended): when the surviving entries all lie under one top-level
\* folder F, analyzeZip returns, in archive order, each surviving path with the
\* longest folder prefix the surviving paths share removed; that prefix begins
\* with F followed by a separator and may span several folder levels.
SharedFolderStripped ==
    (Analyzed /\ UnderOneFolder) =>
        LET pre == SharedFolderPrefix(SurvivingPaths)
        IN /\ StartsWith(pre, TheFolder \o <<Slash>>)
           /\ Len(zipResult.files) = Len(Surviving)
           /\ \A k \in DOMAIN Surviving :
                 Surviving[k].name = pre \o zipResult.files[k].path

\* two files under one top-level folder, one of them in a nested folder of
\* the same name: a returned path still begins with the folder name
SharedFolderWitness ==
    /\ Analyzed
    /\ UnderOneFolder
    /\ Len(Surviving) = 2
    /\ \E q \in ReturnedPaths : StartsWith(q, TheFolder \o <<Slash>>)

\* C13: when the surviving entries do not all lie under one top-level folder
\* (two first segments differ, or a file is directly at the root), analyzeZip
\* strips nothing: the returned paths are the surviving paths, in archive order.
MixedRootsKept ==
    (Analyzed /\ Surviving # <<>> /\ ~UnderOneFolder) =>
        /\ Len(zipResult.files) = Len(Surviving)
        /\ \A k \in DOMAIN Surviving : zipResult.files[k].path = Surviving[k].name
        /\ ReturnedPaths = SurvivingPaths

\* files under two different top-level folders, none at the root
MixedRootsWitness ==
    /\ Analyzed
    /\ Len(Surviving) >= 2
    /\ \A q \in SurvivingPaths : HasSlash(q)
    /\ \E q, r \in SurvivingPaths : TopSegment(q) # TopSegment(r)
    /\ ReturnedPaths = SurvivingPaths

\* C14: the classification follows from the returned paths alone: Static
\* Website when index.html is among them, with or without package.json;
\* Node.js Project when package.json is and index.html is not; Unknown exactly
\* when neither is.
ClassifiedByPaths ==
    Analyzed =>
        /\ IndexHtml \in ReturnedPaths => zipResult.projectType = "Static Website"
        /\ (PackageJson \in ReturnedPaths /\ IndexHtml \notin ReturnedPaths) =>
              zipResult.projectType = "Node.js Project"
        /\ zipResult.projectType = "Unknown" <=>
              (IndexHtml \notin ReturnedPaths /\ PackageJson \notin ReturnedPaths)

\* both marker files became root-relative by stripping a shared folder
ClassifiedWitness ==
    /\ Analyzed
    /\ IndexHtml \in ReturnedPaths
    /\ PackageJson \in ReturnedPaths
    /\ IndexHtml \notin SurvivingPaths
    /\ zipResult.projectType = "Static Website"

\* the archive without its directory entries and junk entries
JunkFree == [zipFile EXCEPT !.entries = Surviving]

\* C15: directory entries and entries whose path contains __MACOSX or
\* .DS_Store are discarded before the shared folder is looked for: no returned
\* path contains a marker, the files returned are those of the archive without
\* these entries, and an archive of nothing else yields no file, fileCount 0
\* and Unknown.
JunkDiscarded ==
    Analyzed =>
        /\ \A q \in ReturnedPaths : ~Includes(q, MacOsx) /\ ~Includes(q, DsStore)
        /\ Len(zipResult.files) = Len(Surviving)
        /\ zipResult.files = analyzeZip(JunkFree, 1).files
        /\ Surviving = <<>> =>
              /\ zipResult.files = <<>>
              /\ zipResult.fileCount = 0
              /\ zipResult.projectType = "Unknown"

\* a junk file at the root and a directory entry next to files of one folder:
\* the folder is stripped all the same
JunkDiscardedWitness ==
    /\ Analyzed
    /\ \E k \in DOMAIN zipFile.entries :
          JunkEntry(zipFile.entries[k]) /\ ~HasSlash(zipFile.entries[k].name)
    /\ UnderOneFolder
    /\ ReturnedPaths # SurvivingPaths

\* no file entry's name ends with a separator (entry names are distinct in
\* every archive)
PlainFileNames ==
    \A k \in DOMAIN zipFile.entries :
        ~zipFile.entries[k].dir => ~EndsWith(zipFile.entries[k].name, <<Slash>>)

RECURSIVE SizeOfEntries(_)
SizeOfEntries(entries) ==
    IF entries = <<>> THEN 0 ELSE Head(entries).size + SizeOfEntries(Tail(entries))

\* C16: for an archive in which no file entry's name ends with a separator,
\* the returned paths are pairwise distinct and non-empty, fileCount is the
\* number of returned files and totalSize is the sum of their sizes.
ResultWellFormed ==
    (Analyzed /\ PlainFileNames) =>
        /\ \A j, k \in DOMAIN zipResult.files :
              j # k => zipResult.files[j].path # zipResult.files[k].path
        /\ \A k \in DOMAIN zipResult.files : zipResult.files[k].path # <<>>
        /\ zipResult.fileCount = Len(zipResult.files)
        /\ zipResult.totalSize = SizeOfEntries(zipResult.files)
        /\ zipResult.totalSize = SizeOfEntries(Surviving)

\* three files of different sizes, a shared folder stripped
ResultWellFormedWitness ==
    /\ Analyzed
    /\ PlainFileNames
    /\ zipResult.fileCount = 3
    /\ zipResult.totalSize > 3
    /\ ReturnedPaths # SurvivingPaths

\* the analysis has index.html or package.json at its root
RootMarker(an) == \E k \in DOMAIN an.files : an.files[k].path \in {IndexHtml, PackageJson}

\* C17 (as claimed): an archive is stored for deployment, and handed to
\* deployZipToGitHub, only if its normalized files contain a root-relative
\* index.html or package.json.
AcceptedOnlyWithRootMarker ==
    /\ file # NoFile => RootMarker(uiAnalysis)
    /\ pc # "idle" => RootMarker(analysis)

\* the host operations that come after a stage in the pipeline
StagesAfter ==
    [authenticate |-> {"createRepo", "getRef", "createTree", "createCommit", "updateRef"},
     createRepo |-> {"getRef", "createTree", "createCommit", "updateRef"},
     prepare |-> {"getRef", "createTree", "createCommit", "updateRef"},
     getRef |-> {"createTree", "createCommit", "updateRef"},
     blobs |-> {"createTree", "createCommit", "updateRef"},
     createTree |-> {"createCommit", "updateRef"},
     createCommit |-> {"updateRef"},
     updateRef |-> {}]

\* C18: once a stage has failed, no new host call is issued: no operation of a
\* later stage, no read and no createBlob after a failure before the upload,
\* no createBlob of a batch after the one that failed; and a repository that
\* was created stays on the host.
FailureStops ==
    outcome = "thrown" =>
        /\ \A o \in StagesAfter[failedStage] : issued[o] = 0
        /\ failedStage \in {"authenticate", "createRepo"} => prepIssued = 0
        /\ failedStage = "prepare" => prepIssued = Len(filesToUpload) + 1
        /\ failedStage \in {"authenticate", "createRepo", "prepare", "getRef"} =>
              \A f \in DOMAIN blobIssued : blobIssued[f] = 0
        /\ failedStage = "blobs" =>
              \A f, g \in DOMAIN blob :
                  (blob[f] = "failed" /\ blobIssued[g] > 0) => BatchNo(g) <= BatchNo(f)
        /\ call["createRepo"] = "ok" => (repoName \in hostRepos /\ hostRef[repoName] = BaseCommit)

\* a createBlob of the first batch was rejected, the other calls of the batch
\* have been answered since, and the file of the second batch was never sent
FailureStopsWitness ==
    /\ outcome = "thrown"
    /\ failedStage = "blobs"
    /\ analysis.fileCount > BATCH_SIZE
    /\ InFlightBlobs = {}
    /\ \E g \in DOMAIN blobIssued : blobIssued[g] = 0
    /\ repoName \in hostRepos

\* C19: getRef reads heads/main after the repository was created and before
\* any createBlob is issued; in a successful deployment the sha it read is the
\* base_tree of createTree and the only parent of the commit, the tree of the
\* commit is the sha createTree returned, and updateRef moved heads/main to the
\* sha createCommit returned.
LinearCommit ==
    /\ issued["getRef"] > 0 =>
          /\ call["createRepo"] = "ok"
          /\ req["getRef"].ref = "heads/main"
          /\ req["getRef"].repo = repoName
    /\ IssuedBlobs # {} => call["getRef"] = "ok"
    /\ outcome = "returned" =>
          /\ resp["getRef"].sha = BaseCommit
          /\ req["createTree"].base_tree = resp["getRef"].sha
          /\ req["createCommit"].parents = <<resp["getRef"].sha>>
          /\ req["createCommit"].tree = resp["createTree"].sha
          /\ req["updateRef"].ref = "heads/main"
          /\ req["updateRef"].sha = resp["createCommit"].sha
          /\ hostRef[repoName] = resp["createCommit"].sha

\* a successful deployment of two batches: the branch is at the new commit
LinearCommitWitness ==
    /\ outcome = "returned"
    /\ analysis.fileCount > BATCH_SIZE
    /\ hostRef[repoName] = resp["createCommit"].sha
    /\ hostRef[repoName] # BaseCommit

\* the number of batches of n files
BatchCount(n) == (n + BATCH_SIZE - 1) \div BATCH_SIZE
InfoEvent(words) == [step |-> words, details |-> <<>>, type |-> "info"]
SuccessEvent(words, details) == [step |-> words, details |-> details, type |-> "success"]
\* the statuses of a deployment of n files that succeeds, in stage order
StageStream(login, name, n) ==
    << InfoEvent(<<"Authenticating...">>),
       SuccessEvent(<<"Authenticated as", login>>, <<>>),
       InfoEvent(<<"Creating repository", name>>),
       SuccessEvent(<<"Repository created successfully.">>, <<>>),
       InfoEvent(<<"Preparing files from analysis...">>),
       InfoEvent(<<"Prepared", n, "files for upload.">>),
       InfoEvent(<<"Uploading files (creating blobs)...">>) >>
    \o [b \in 1..BatchCount(n) |-> InfoEvent(<<"Uploaded", Min(b * BATCH_SIZE, n), n>>)]
    \o << InfoEvent(<<"Creating file tree...">>),
          InfoEvent(<<"Creating commit...">>),
          InfoEvent(<<"Updating repository reference...">>),
          SuccessEvent(<<"Deployment complete!">>, <<"https://github.com/", login, "/", name>>) >>
\* the statuses before the error status, if there is one
ProgressEvents ==
    IF events # <<>> /\ Last(events).type = "error"
    THEN SubSeq(events, 1, Len(events) - 1)
    ELSE events

\* C20: the statuses emitted so far are, in every state, an initial part of
\* the stage-ordered stream, followed by one error status exactly when the
\* invocation has failed; the status that starts a stage is there before the
\* stage's call is issued, a status of completion is there only if the call
\* succeeded, and it is there as soon as the call has succeeded.
StatusStream ==
    LET n == analysis.fileCount
        nb == BatchCount(n)
        len == Len(ProgressEvents)
    IN /\ \E login \in Logins : IsPrefix(ProgressEvents, StageStream(login, repoName, n))
       /\ (outcome = "thrown") <=> (ProgressEvents # events)
       \* started before the call is issued
       /\ issued["authenticate"] > 0 => len >= 1
       /\ issued["createRepo"] > 0 => len >= 3
       /\ prepIssued > 0 => len >= 5
       /\ \A f \in DOMAIN blobIssued : blobIssued[f] > 0 => len >= 7 + BatchNo(f)
       /\ issued["createTree"] > 0 => len >= 8 + nb
       /\ issued["createCommit"] > 0 => len >= 9 + nb
       /\ issued["updateRef"] > 0 => len >= 10 + nb
       \* completion only after success
       /\ len >= 2 => call["authenticate"] = "ok"
       /\ len >= 4 => call["createRepo"] = "ok"
       /\ len >= 6 => Len(filesToUpload) = n
       /\ \A f \in DOMAIN blob : len >= 8 + BatchNo(f) => blob[f] = "ok"
       /\ len >= 9 + nb => call["createTree"] = "ok"
       /\ len >= 10 + nb => call["createCommit"] = "ok"
       /\ len >= 11 + nb => call["updateRef"] = "ok"
       \* and not later than success
       /\ call["authenticate"] = "ok" => len >= 2
       /\ call["createRepo"] = "ok" => len >= 4
       /\ call["getRef"] = "ok" => len >= 7
       /\ \A b \in 0..(nb - 1) :
             (\A f \in DOMAIN blob : BatchNo(f) = b => blob[f] = "ok") => len >= 8 + b
       /\ call["createTree"] = "ok" => len >= 9 + nb
       /\ call["createCommit"] = "ok" => len >= 10 + nb
       /\ call["updateRef"] = "ok" => len = 11 + nb

\* an invocation that failed in its second batch: eight statuses of progress,
\* then the error status
StatusStreamWitness ==
    /\ outcome = "thrown"
    /\ failedStage = "blobs"
    /\ Len(events) = 9
    /\ events[8].step = <<"Uploaded", BATCH_SIZE, analysis.fileCount>>
    /\ Last(events).type = "error"

IsProgress(e) == e.step[1] = "Uploaded"
\* the progress statuses among `evs`, in order
ProgressOf(evs) == SelectSeq(evs, IsProgress)
\* the createBlob calls of `b` that have succeeded
OkBlobs(b) == {f \in DOMAIN b : b[f] = "ok"}
\* the batches of the analysis whose calls have all succeeded
DoneBatches ==
    {k \in 1..BatchCount(analysis.fileCount) :
        \A f \in DOMAIN blob : BatchNo(f) = k - 1 => blob[f] = "ok"}

\* the progress statuses so far: one per batch whose calls all succeeded, the
\* k-th reporting min(k*BATCH_SIZE, n) of n, the counts strictly increasing,
\* and ceil(n/BATCH_SIZE) of them, the last reporting n of n, once the upload
\* is over
ProgressPerBatch ==
    LET n == analysis.fileCount
        pe == ProgressOf(events)
    IN /\ Len(pe) = Cardinality(DoneBatches)
       /\ \A k \in DOMAIN pe : pe[k].step = <<"Uploaded", Min(k * BATCH_SIZE, n), n>>
       /\ \A k \in 1..(Len(pe) - 1) : pe[k].step[2] < pe[k + 1].step[2]
       /\ issued["createTree"] > 0 =>
             /\ Len(pe) = BatchCount(n)
             /\ n = 0 => pe = <<>>
             /\ n > 0 => Last(pe).step[2] = n

\* a turn emits at most one progress status, and the count it reports is the
\* number of createBlob calls that have succeeded by then
ProgressAtSuccess ==
    LET before == ProgressOf(events)
        after == ProgressOf(events')
    IN Len(after) # Len(before) =>
          /\ Len(after) = Len(before) + 1
          /\ Last(after).step[2] = Cardinality(OkBlobs(blob'))

\* C21: one progress status is emitted after each batch whose calls all
\* succeeded, ceil(n/BATCH_SIZE) in a successful upload and none when n = 0;
\* the k-th reports min(k*BATCH_SIZE, n) of n, which is the number of
\* createBlob calls that have succeeded when it is emitted; the counts
\* increase strictly and the last one is n of n.
BatchProgress == []ProgressPerBatch /\ [][ProgressAtSuccess]_vars

\* the upload of two batches is over: two progress statuses, the last n of n
BatchProgressWitness ==
    /\ analysis.fileCount > BATCH_SIZE
    /\ issued["createTree"] > 0
    /\ Len(ProgressOf(events)) = 2
    /\ Last(ProgressOf(events)).step[2] = analysis.fileCount

\* the initial parts of a path, the empty one and the path itself included
Prefixes(path) == {SubSeq(path, 1, k) : k \in 0..Len(path)}
\* the longest sequence of characters every one of the paths begins with
LongestCommonPrefix(paths) ==
    LET shared == {pre \in Prefixes(CHOOSE q \in paths : TRUE) :
                      \A q \in paths : StartsWith(q, pre)}
    IN CHOOSE pre \in shared : \A other \in shared : Len(other) <= Len(pre)
\* a prefix cut after its last separator, empty when it has none
UpToLastSlash(pre) ==
    LET folders == {<<>>} \cup FolderPrefixes(pre)
    IN CHOOSE f \in folders : \A g \in folders : Len(g) <= Len(f)

\* C22: when files survive, the candidate prefix computed from the first and
\* last sorted path is a prefix of every surviving path, so the test on every
\* path never rejects it; the prefix stripped is the longest common prefix of
\* all surviving paths cut after its last separator, and it is what the
\* returned paths lack.
CandidateShared ==
    (Analyzed /\ Surviving # <<>>) =>
        /\ \A k \in DOMAIN zipCandidate, q \in SurvivingPaths : StartsWith(q, zipCandidate[k])
        /\ zipCandidate # <<>> => zipPrefix = zipCandidate[1]
        /\ zipPrefix = UpToLastSlash(LongestCommonPrefix(SurvivingPaths))
        /\ \A k \in DOMAIN Surviving : Surviving[k].name = zipPrefix \o zipResult.files[k].path

\* two files whose paths share a folder of two levels
CandidateSharedWitness ==
    /\ Analyzed
    /\ Len(Surviving) = 2
    /\ zipCandidate # <<>>
    /\ Cardinality({k \in DOMAIN zipPrefix : zipPrefix[k] = Slash}) = 2

\* C23: heads/main of the repository moves only by the one updateRef call that
\* follows the success of every createBlob, of createTree and of createCommit:
\* until then, and in every failed deployment that created the repository, it
\* is at the base commit getRef read; a repository the deployment did not
\* create is never touched.
RefMovesOnSuccessOnly ==
    repoName \in RepoNames =>
        /\ call["createRepo"] # "ok" => hostRef[repoName] \in {"none", PriorCommit}
        /\ (call["createRepo"] = "ok" /\ call["updateRef"] # "ok") =>
              /\ hostRef[repoName] = BaseCommit
              /\ call["getRef"] = "ok" => hostRef[repoName] = resp["getRef"].sha
        /\ (outcome = "thrown" /\ call["createRepo"] = "ok") => hostRef[repoName] = BaseCommit
        /\ hostRef[repoName] \notin {"none", PriorCommit, BaseCommit} =>
              /\ call["updateRef"] = "ok"
              /\ issued["updateRef"] = 1
              /\ outcome = "returned"
              /\ DOMAIN blob = 1..analysis.fileCount
              /\ \A f \in DOMAIN blob : blob[f] = "ok"
              /\ call["createTree"] = "ok"
              /\ call["createCommit"] = "ok"
              /\ hostRef[repoName] = resp["createCommit"].sha

\* updateRef itself was rejected after two batches were uploaded: the branch
\* is still at the base commit
RefMovesWitness ==
    /\ outcome = "thrown"
    /\ failedStage = "updateRef"
    /\ analysis.fileCount > BATCH_SIZE
    /\ hostRef[repoName] = BaseCommit
    /\ resp["getRef"].sha = BaseCommit

\* the invocation under way is a retry for a repository that an earlier
\* invocation created and did not publish to: that one failed after creating it
RetryAfterCreation ==
    /\ repoName \in RepoNames
    /\ repoName \in hostRepos
    /\ createdBy[repoName] >= 1
    /\ createdBy[repoName] < Len(handed)
    /\ hostRef[repoName] = BaseCommit

\* C24 (as claimed): a retry for a repository that a failed attempt left on
\* the host fails at repository creation with the 'already exists' error and
\* issues no getRef, createBlob, createTree, createCommit or updateRef.
RetryAlreadyExists ==
    RetryAfterCreation =>
        /\ outcome # "returned"
        /\ outcome = "thrown" =>
              /\ failedStage = "createRepo"
              /\ result.message = <<"Repository", repoName, "already exists.">>
        /\ \A o \in {"getRef", "createTree", "createCommit", "updateRef"} : issued[o] = 0
        /\ \A f \in DOMAIN blobIssued : blobIssued[f] = 0

\* C24 (amended): such a retry cannot succeed: it fails at repository creation
\* at the latest, with the 'already exists' error when the host answers the
\* creation request with 422, and it issues no read of a file, no getRef,
\* createBlob, createTree, createCommit or updateRef.
RetryCannotSucceed ==
    RetryAfterCreation =>
        /\ outcome # "returned"
        /\ call["createRepo"] # "ok"
        /\ outcome = "thrown" =>
              /\ failedStage \in {"authenticate", "createRepo"}
              /\ (failedStage = "createRepo" /\ hostError.status = 422) =>
                    result.message = <<"Repository", repoName, "already exists.">>
        /\ \A o \in {"getRef", "createTree", "createCommit", "updateRef"} : issued[o] = 0
        /\ \A f \in DOMAIN blobIssued : blobIssued[f] = 0
        /\ prepIssued = 0

\* the retry was answered 422 and the wizard shows the 'already exists' error
RetryWitness ==
    /\ RetryAfterCreation
    /\ outcome = "thrown"
    /\ failedStage = "createRepo"
    /\ hostError.status = 422
    /\ error = <<"Repository", repoName, "already exists.">>
====
